---- MODULE Spec2Model ----
(***************************************************************************)
(* The in-memory user directory of user-management_2/app/utils.py: the     *)
(* five field validators and the four directory operations get_user_info,  *)
(* list_all_users, add_user and update_user, called by a driver that       *)
(* catches ValueError and PermissionError (main.py).                       *)
(*                                                                         *)
(* Python str values that the code inspects (email, mobile, gender,        *)
(* blood_group) are sequences of one-character strings, so that the        *)
(* regular expressions, lower() and upper() are computed character by      *)
(* character.  Usernames, roles and messages, which the code only compares *)
(* or prints, are TLA+ strings.  A dict is a function on its keys.         *)
(***************************************************************************)
EXTENDS Integers, Sequences, FiniteSets, TLC

VARIABLES records, pc, op, args, exc, msg, ret, log

vars == <<records, pc, op, args, exc, msg, ret, log>>

----------------------------------------------------------------------------
(* Characters *)

Lowers == <<"a","b","c","d","e","f","g","h","i","j","k","l","m",
            "n","o","p","q","r","s","t","u","v","w","x","y","z">>

Uppers == <<"A","B","C","D","E","F","G","H","I","J","K","L","M",
            "N","O","P","Q","R","S","T","U","V","W","X","Y","Z">>

Digits == {"0","1","2","3","4","5","6","7","8","9"}

Range(s) == {s[i] : i \in DOMAIN s}

Alnum == Range(Lowers) \cup Range(Uppers) \cup Digits

\* str.lower() and str.upper(), one character at a time
LowerCh(c) == IF \E i \in DOMAIN Uppers : Uppers[i] = c
              THEN Lowers[CHOOSE i \in DOMAIN Uppers : Uppers[i] = c]
              ELSE c

UpperCh(c) == IF \E i \in DOMAIN Lowers : Lowers[i] = c
              THEN Uppers[CHOOSE i \in DOMAIN Lowers : Lowers[i] = c]
              ELSE c

lower(s) == [i \in 1..Len(s) |-> LowerCh(s[i])]

upper(s) == [i \in 1..Len(s) |-> UpperCh(s[i])]

\* every character of s at the positions lo..hi is in class, and there is one
AllIn(s, lo, hi, class) == lo <= hi /\ \A i \in lo..hi : s[i] \in class

\* where Python's $ (no MULTILINE) matches in s: at the end, and just before
\* a newline that is the last character
DollarEnds(s) == {Len(s)} \cup
                 (IF Len(s) >= 1 /\ s[Len(s)] = "\n" THEN {Len(s) - 1} ELSE {})

----------------------------------------------------------------------------
(* Reference data of constants.py *)

VALID_GENDERS == { <<"m","a","l","e">>, <<"f","e","m","a","l","e">>,
                   <<"o","t","h","e","r">> }

VALID_BLOOD_GROUPS == { <<"A","+">>, <<"A","-">>, <<"B","+">>, <<"B","-">>,
                        <<"A","B","+">>, <<"A","B","-">>,
                        <<"O","+">>, <<"O","-">> }

EXCLUDED_NUMBERS == { <<"9","9","9","9","9","9","9","9","9","9">> }

MinAge == 0

MaxAge == 120

MobileLen == 10

----------------------------------------------------------------------------
(* Results of a call: what it raised, what it returned, what it logged *)

NoValue == <<>>

Event(level, about) == [level |-> level, about |-> about]

Returns(value, events) ==
    [exc |-> "None", msg |-> "", ret |-> value, log |-> events]

Raises(kind, message, events) ==
    [exc |-> kind, msg |-> message, ret |-> NoValue, log |-> events]

----------------------------------------------------------------------------
(* Validators *)

\* r'^[a-zA-Z0-9_.+-]+@[a-zA-Z0-9-]+\.[a-zA-Z0-9-.]+$' under re.match
EmailRegexMatch(s) ==
    \E n \in DollarEnds(s) : \E i \in 1..n : \E j \in 1..n :
        /\ i < j
        /\ AllIn(s, 1, i - 1, Alnum \cup {"_", ".", "+", "-"})
        /\ s[i] = "@"
        /\ AllIn(s, i + 1, j - 1, Alnum \cup {"-"})
        /\ s[j] = "."
        /\ AllIn(s, j + 1, n, Alnum \cup {"-", "."})

\* r'^\d{10}$' under re.match
MobileRegexMatch(s) ==
    \E n \in DollarEnds(s) : n = MobileLen /\ AllIn(s, 1, n, Digits)

validate_email(email) ==
    IF ~EmailRegexMatch(email)
    THEN Raises("ValueError", "Invalid email format", <<Event("error", "email")>>)
    ELSE Returns(TRUE, <<Event("info", "email")>>)

AgeInRange(age) == MinAge <= age /\ age <= MaxAge

validate_age(age) ==
    IF ~AgeInRange(age)
    THEN Raises("ValueError", "Invalid age", <<Event("error", "age")>>)
    ELSE Returns(TRUE, <<Event("info", "age")>>)

validate_mobile(mobile) ==
    IF ~MobileRegexMatch(mobile)
    THEN Raises("ValueError", "Invalid mobile number", <<Event("error", "mobile")>>)
    ELSE IF mobile \in EXCLUDED_NUMBERS
    THEN Returns(FALSE, <<Event("info", "mobile")>>)
    ELSE Returns(TRUE, <<Event("info", "mobile")>>)

validate_gender(gender) ==
    IF lower(gender) \notin VALID_GENDERS
    THEN Raises("ValueError", "Invalid gender", <<Event("error", "gender")>>)
    ELSE Returns(TRUE, <<Event("info", "gender")>>)

validate_blood_group(blood_group) ==
    IF upper(blood_group) \notin VALID_BLOOD_GROUPS
    THEN Raises("ValueError", "Invalid blood group", <<Event("error", "blood_group")>>)
    ELSE Returns(TRUE, <<Event("info", "blood_group")>>)

----------------------------------------------------------------------------
(* Statements in sequence: the calls vs[1], vs[2], ... are made in order    *)
(* until one raises; the exception propagates and the rest are not made.    *)

FirstRaise(vs) ==
    IF \E i \in DOMAIN vs : vs[i].exc # "None"
    THEN CHOOSE i \in DOMAIN vs :
            vs[i].exc # "None" /\ \A j \in 1..(i - 1) : vs[j].exc = "None"
    ELSE 0

RECURSIVE LogsUpTo(_, _)
LogsUpTo(vs, n) == IF n = 0 THEN <<>> ELSE LogsUpTo(vs, n - 1) \o vs[n].log

\* the outcome of the sequence: the first raise with the events so far, or
\* no exception with all the events
InOrder(vs) ==
    LET k == FirstRaise(vs) IN
    IF k = 0 THEN Returns(TRUE, LogsUpTo(vs, Len(vs)))
    ELSE Raises(vs[k].exc, vs[k].msg, LogsUpTo(vs, k))

----------------------------------------------------------------------------
(* Directory operations.  Each is a function of the directory and of its    *)
(* arguments; Outcome adds the directory the call leaves behind.            *)

Outcome(res, recs) ==
    [exc |-> res.exc, msg |-> res.msg, ret |-> res.ret, log |-> res.log,
     records |-> recs]

\* data['records'].get(username) is truthy: the key is there and its dict
\* is not empty
Found(recs, username) ==
    username \in DOMAIN recs /\ DOMAIN recs[username] # {}

\* mutant: "and" written for "or"
MayView_And(username, current_user, is_admin) ==
    username = current_user /\ is_admin

\* username == current_user or is_admin
MayView(username, current_user, is_admin) ==
    username = current_user \/ is_admin

get_user_info(recs, username, current_user, is_admin) ==
    IF Found(recs, username)
    THEN IF MayView(username, current_user, is_admin)
         THEN Outcome(Returns(recs[username],
                              <<Event("info", "get_user_info")>>), recs)
         ELSE Outcome(Raises("PermissionError", "Unauthorized access",
                             <<Event("warning", "get_user_info")>>), recs)
    ELSE Outcome(Raises("ValueError", "User not found",
                        <<Event("error", "get_user_info")>>), recs)

\* mutant: the is_admin test left out
list_all_users_NoCheck(recs, current_user, is_admin) ==
    Outcome(Returns(recs, <<Event("info", "list_all_users")>>), recs)

list_all_users(recs, current_user, is_admin) ==
    IF is_admin
    THEN Outcome(Returns(recs, <<Event("info", "list_all_users")>>), recs)
    ELSE Outcome(Raises("PermissionError", "Unauthorized access",
                        <<Event("warning", "list_all_users")>>), recs)

\* mutant: the gender stored in lower case
NewRecord_Folded(email, age, mobile, gender, blood_group, role) ==
    [email |-> email, age |-> age, mobile |-> mobile, gender |-> lower(gender),
     blood_group |-> blood_group, role |-> role]

\* the dict literal add_user stores
NewRecord(email, age, mobile, gender, blood_group, role) ==
    [email |-> email, age |-> age, mobile |-> mobile, gender |-> gender,
     blood_group |-> blood_group, role |-> role]

\* mutant: data['records'] = {username: record}
Store_Replace(recs, username, record) ==
    [u \in {username} |-> record]

\* data['records'][username] = record
Store(recs, username, record) ==
    [u \in DOMAIN recs \cup {username} |->
        IF u = username THEN record ELSE recs[u]]

\* mutant: the age validated before the email
AddValidators_AgeFirst(email, age, mobile, gender, blood_group) ==
    << validate_age(age), validate_email(email), validate_mobile(mobile),
       validate_gender(gender), validate_blood_group(blood_group) >>

\* the five validator calls of add_user, in the order they are written
AddValidators(email, age, mobile, gender, blood_group) ==
    << validate_email(email), validate_age(age), validate_mobile(mobile),
       validate_gender(gender), validate_blood_group(blood_group) >>

\* mutant: username in data, the outer dict, which has no username as key
Exists_OuterDict(recs, username) == username \in {"records"}

\* username in data['records']
Exists(recs, username) == username \in DOMAIN recs

add_user(recs, username, email, age, mobile, gender, blood_group, role, current_user, is_admin) ==
    IF is_admin
    THEN LET v == InOrder(AddValidators(email, age, mobile, gender, blood_group))
         IN  IF v.exc # "None"
             THEN Outcome(v, recs)
             ELSE IF Exists(recs, username)
             THEN Outcome(Raises("ValueError", "User already exists",
                                 v.log \o <<Event("error", "add_user")>>), recs)
             ELSE LET new == Store(recs, username,
                                   NewRecord(email, age, mobile, gender,
                                             blood_group, role))
                  IN  Outcome(Returns(new, v.log \o <<Event("info", "add_user")>>),
                              new)
    ELSE Outcome(Raises("PermissionError", "Unauthorized access",
                        <<Event("warning", "add_user")>>), recs)

\* mutant: "not" left out
UpdateDenied_NoNot(username, current_user, is_admin) ==
    current_user # username /\ is_admin

\* current_user != username and not is_admin
UpdateDenied(username, current_user, is_admin) ==
    current_user # username /\ ~is_admin

\* the "if key in updates: validate_key(updates[key])" statements of
\* update_user, in the order they are written
UpdateValidators(updates) ==
    (IF "email" \in DOMAIN updates
        THEN <<validate_email(updates["email"])>> ELSE <<>>)
    \o (IF "age" \in DOMAIN updates
        THEN <<validate_age(updates["age"])>> ELSE <<>>)
    \o (IF "mobile" \in DOMAIN updates
        THEN <<validate_mobile(updates["mobile"])>> ELSE <<>>)
    \o (IF "gender" \in DOMAIN updates
        THEN <<validate_gender(updates["gender"])>> ELSE <<>>)
    \o (IF "blood_group" \in DOMAIN updates
        THEN <<validate_blood_group(updates["blood_group"])>> ELSE <<>>)

\* dict.update(updates): every key of updates is set, whatever it is
DictUpdate(record, updates) ==
    [k \in DOMAIN record \cup DOMAIN updates |->
        IF k \in DOMAIN updates THEN updates[k] ELSE record[k]]

\* mutant: the permission test made before the lookup
update_user_AuthFirst(recs, username, updates, current_user, is_admin) ==
    IF UpdateDenied(username, current_user, is_admin)
    THEN Outcome(Raises("PermissionError", "Unauthorized access",
                        <<Event("warning", "update_user")>>), recs)
    ELSE IF ~Found(recs, username)
    THEN Outcome(Raises("ValueError", "User not found",
                        <<Event("error", "update_user")>>), recs)
    ELSE LET v == InOrder(UpdateValidators(updates))
         IN  IF v.exc # "None"
             THEN Outcome(v, recs)
             ELSE LET new == Store(recs, username,
                                   DictUpdate(recs[username], updates))
                  IN  Outcome(Returns(new[username],
                                      v.log \o <<Event("info", "update_user")>>),
                              new)

update_user(recs, username, updates, current_user, is_admin) ==
    IF ~Found(recs, username)
    THEN Outcome(Raises("ValueError", "User not found",
                        <<Event("error", "update_user")>>), recs)
    ELSE IF UpdateDenied(username, current_user, is_admin)
    THEN Outcome(Raises("PermissionError", "Unauthorized access",
                        <<Event("warning", "update_user")>>), recs)
    ELSE LET v == InOrder(UpdateValidators(updates))
         IN  IF v.exc # "None"
             THEN Outcome(v, recs)
             ELSE LET new == Store(recs, username,
                                   DictUpdate(recs[username], updates))
                  IN  Outcome(Returns(new[username],
                                      v.log \o <<Event("info", "update_user")>>),
                              new)

----------------------------------------------------------------------------
(* The arguments the driver may pass *)

\* an updates dict has at most this many keys
MaxUpdateKeys == 2

Usernames == {"alice", "bob"}

Roles == {"user", "admin"}

E_ok == <<"a", "@", "b", ".", "c">>

E_bad == <<"a", "b", ".", "c">>

Emails == {E_ok, E_bad}

Ages == {MinAge - 1, MaxAge, MaxAge + 1}

M_ok == <<"7","7","7","6","5","4","3","2","1","0">>

M_excluded == <<"9","9","9","9","9","9","9","9","9","9">>

M_newline == M_ok \o <<"\n">>

M_short == <<"1","2","3","4","5">>

Mobiles == {M_ok, M_excluded, M_newline, M_short}

G_ok == <<"M","a","l","e">>

G_bad == <<"a","l","i","e","n">>

Genders == {G_ok, G_bad}

B_ok == <<"a","b","+">>

B_bad == <<"C","+">>

BloodGroups == {B_ok, B_bad}

\* a key of updates is absent (<<>>) or present with a value (<<v>>)
Maybe(values) == {<<>>} \cup {<<v>> : v \in values}

\* the dict with the keys that are present
MakeUpdates(e, a, m, g, b, r) ==
    LET given == [email |-> e, age |-> a, mobile |-> m, gender |-> g,
                  blood_group |-> b, role |-> r]
    IN  [k \in {x \in DOMAIN given : given[x] # <<>>} |-> given[k][1]]

----------------------------------------------------------------------------
(* The state: the directory data['records'], and the call the driver made   *)
(* last with what it raised, returned and logged.                           *)

NoCall == [username |-> "", current_user |-> "", is_admin |-> FALSE]

Init ==
    /\ records = <<>>
    /\ pc = "ready"
    /\ op = "none"
    /\ args = NoCall
    /\ exc = "None"
    /\ msg = ""
    /\ ret = NoValue
    /\ log = <<>>

\* the call is made and runs to its return or its raise
Finish(name, arguments, out) ==
    /\ pc' = "returned"
    /\ op' = name
    /\ args' = arguments
    /\ records' = out.records
    /\ exc' = out.exc
    /\ msg' = out.msg
    /\ ret' = out.ret
    /\ log' = out.log

GetUserInfo ==
    /\ pc = "ready"
    /\ \E username \in Usernames, current_user \in Usernames, is_admin \in BOOLEAN :
        Finish("get_user_info",
               [username |-> username, current_user |-> current_user,
                is_admin |-> is_admin],
               get_user_info(records, username, current_user, is_admin))

ListAllUsers ==
    /\ pc = "ready"
    /\ \E current_user \in Usernames, is_admin \in BOOLEAN :
        Finish("list_all_users",
               [username |-> "", current_user |-> current_user,
                is_admin |-> is_admin],
               list_all_users(records, current_user, is_admin))

AddUser ==
    /\ pc = "ready"
    /\ \E username \in Usernames, email \in Emails, age \in Ages,
       mobile \in Mobiles, gender \in Genders, blood_group \in BloodGroups,
       role \in Roles, current_user \in Usernames, is_admin \in BOOLEAN :
        Finish("add_user",
               [username |-> username, email |-> email, age |-> age,
                mobile |-> mobile, gender |-> gender,
                blood_group |-> blood_group, role |-> role,
                current_user |-> current_user, is_admin |-> is_admin],
               add_user(records, username, email, age, mobile, gender,
                        blood_group, role, current_user, is_admin))

UpdateUser ==
    /\ pc = "ready"
    /\ \E username \in Usernames, current_user \in Usernames, is_admin \in BOOLEAN,
       e \in Maybe(Emails), a \in Maybe(Ages), m \in Maybe(Mobiles),
       g \in Maybe(Genders), b \in Maybe(BloodGroups), r \in Maybe(Roles) :
        LET updates == MakeUpdates(e, a, m, g, b, r) IN
        /\ Cardinality(DOMAIN updates) <= MaxUpdateKeys
        /\ Finish("update_user",
                  [username |-> username, updates |-> updates,
                   current_user |-> current_user, is_admin |-> is_admin],
                  update_user(records, username, updates, current_user, is_admin))

\* the driver's try block ends: the result is logged, or the exception is
\* caught and logged as critical, and the next scenario starts
Return ==
    /\ pc = "returned"
    /\ pc' = "ready"
    /\ op' = "none"
    /\ args' = NoCall
    /\ exc' = "None"
    /\ msg' = ""
    /\ ret' = NoValue
    /\ log' = <<Event(IF exc = "None" THEN "info" ELSE "critical", "main")>>
    /\ UNCHANGED records

Next ==
    \/ GetUserInfo
    \/ ListAllUsers
    \/ AddUser
    \/ UpdateUser
    \/ Return

Spec == Init /\ [][Next]_vars

----------------------------------------------------------------------------
(* Vocabulary of the properties.  A step "calls" an operation when it ends  *)
(* with that operation returned; records is then the directory before the  *)
(* call and records' the directory after it.                                *)

Calls(name) == pc' = "returned" /\ op' = name

Called(name) == pc = "returned" /\ op = name

FieldOrder == <<"email", "age", "mobile", "gender", "blood_group">>

UpdatableFields == Range(FieldOrder)

Validate(field, value) ==
    CASE field = "email" -> validate_email(value)
      [] field = "age" -> validate_age(value)
      [] field = "mobile" -> validate_mobile(value)
      [] field = "gender" -> validate_gender(value)
      [] field = "blood_group" -> validate_blood_group(value)

\* the validators that logged an event, in the order they logged
ValidatorsRun(events) ==
    LET rec == SelectSeq(events, LAMBDA e : e.about \in UpdatableFields)
    IN  [i \in 1..Len(rec) |-> rec[i].about]

\* the fields of FieldOrder that d has, in that order
PresentFields(d) == SelectSeq(FieldOrder, LAMBDA f : f \in DOMAIN d)

\* the position in fields of the first one whose value in d is invalid, or 0
FirstInvalid(fields, d) ==
    LET bad == {i \in DOMAIN fields : Validate(fields[i], d[fields[i]]).exc # "None"}
    IN  IF bad = {} THEN 0 ELSE CHOOSE i \in bad : \A j \in bad : i <= j

AllFieldsValid(d) == FirstInvalid(FieldOrder, d) = 0

----------------------------------------------------------------------------
\* C1: an add_user call by an admin, with five valid fields, for a username
\* that is already in the directory fails with "User already exists" and
\* leaves the directory exactly as it was.
C1_DuplicateAddRejected ==
    [][ ( /\ Calls("add_user")
          /\ args'.is_admin
          /\ args'.username \in DOMAIN records
          /\ AllFieldsValid(args') )
        => ( /\ exc' = "ValueError"
             /\ msg' = "User already exists"
             /\ ret' = NoValue
             /\ records' = records ) ]_vars

C1_Witness ==
    /\ Called("add_user")
    /\ args.is_admin
    /\ AllFieldsValid(args)
    /\ msg = "User already exists"
    /\ args.username \in DOMAIN records
    /\ records[args.username].mobile # args.mobile

----------------------------------------------------------------------------
\* C2: every stored record is valid field by field: its email matches the
\* email pattern, its age is in 0..120, its mobile is exactly ten decimal
\* digits, its gender and its blood group are in the valid sets whatever
\* their case.
ExactlyTenDigits(s) == Len(s) = MobileLen /\ \A i \in 1..Len(s) : s[i] \in Digits

RecordValid(r) ==
    /\ EmailRegexMatch(r.email)
    /\ r.age \in MinAge..MaxAge
    /\ ExactlyTenDigits(r.mobile)
    /\ lower(r.gender) \in VALID_GENDERS
    /\ upper(r.blood_group) \in VALID_BLOOD_GROUPS

C2_StoredRecordsValid ==
    \A u \in DOMAIN records : RecordValid(records[u])

----------------------------------------------------------------------------
\* C3: update_user decides its outcome in a fixed order: "User not found"
\* when the username is absent, whoever asks; else "Unauthorized access"
\* when the requester is neither the user nor an admin, and then no
\* validator has run; else the error of the first invalid field among those
\* of updates, in the order email, age, mobile, gender, blood_group; else
\* success.
C3_UpdateOutcomeOrder ==
    [][ Calls("update_user") =>
        LET a == args'
            fields == PresentFields(a.updates)
            k == FirstInvalid(fields, a.updates)
        IN  IF a.username \notin DOMAIN records
            THEN /\ exc' = "ValueError" /\ msg' = "User not found"
                 /\ ValidatorsRun(log') = <<>>
            ELSE IF a.current_user # a.username /\ ~a.is_admin
            THEN /\ exc' = "PermissionError" /\ msg' = "Unauthorized access"
                 /\ ValidatorsRun(log') = <<>>
            ELSE IF k # 0
            THEN /\ exc' = "ValueError"
                 /\ msg' = Validate(fields[k], a.updates[fields[k]]).msg
                 /\ ValidatorsRun(log') = SubSeq(fields, 1, k)
            ELSE /\ exc' = "None"
                 /\ ValidatorsRun(log') = fields ]_vars

\* an absent username and a requester without rights: not found wins
C3_Witness ==
    /\ Called("update_user")
    /\ args.username \notin DOMAIN records
    /\ args.current_user # args.username
    /\ ~args.is_admin
    /\ msg = "User not found"
    /\ records # <<>>

----------------------------------------------------------------------------
\* C4: add_user decides its outcome in a fixed order: "Unauthorized access"
\* for a requester who is not admin, and then no validator has run; else the
\* error of the first invalid field in the order email, age, mobile, gender,
\* blood group, the validators after it not having run; else "User already
\* exists" when the username is present; else the record is inserted and the
\* updated directory is returned.
C4_AddOutcomeOrder ==
    [][ Calls("add_user") =>
        LET a == args'
            k == FirstInvalid(FieldOrder, a)
        IN  IF ~a.is_admin
            THEN /\ exc' = "PermissionError" /\ msg' = "Unauthorized access"
                 /\ ValidatorsRun(log') = <<>>
                 /\ records' = records
            ELSE IF k # 0
            THEN /\ exc' = "ValueError"
                 /\ msg' = Validate(FieldOrder[k], a[FieldOrder[k]]).msg
                 /\ ValidatorsRun(log') = SubSeq(FieldOrder, 1, k)
                 /\ records' = records
            ELSE IF a.username \in DOMAIN records
            THEN /\ exc' = "ValueError" /\ msg' = "User already exists"
                 /\ ValidatorsRun(log') = FieldOrder
                 /\ records' = records
            ELSE /\ exc' = "None"
                 /\ ValidatorsRun(log') = FieldOrder
                 /\ DOMAIN records' = DOMAIN records \cup {a.username}
                 /\ \A f \in UpdatableFields \cup {"role"} :
                        records'[a.username][f] = a[f]
                 /\ \A u \in DOMAIN records : records'[u] = records[u]
                 /\ ret' = records' ]_vars

\* an admin's call with two invalid fields for a username that is present:
\* the first invalid field decides
C4_Witness ==
    /\ Called("add_user")
    /\ args.is_admin
    /\ args.username \in DOMAIN records
    /\ validate_email(args.email).exc = "None"
    /\ validate_age(args.age).exc # "None"
    /\ validate_gender(args.gender).exc # "None"
    /\ msg = "Invalid age"

----------------------------------------------------------------------------
\* C5: get_user_info fails with "User not found" when the username is
\* absent, whatever the requester's rights; fails with "Unauthorized access"
\* when it is present and the requester is neither that user nor an admin;
\* otherwise returns exactly the stored record.  The directory is unchanged
\* in all three cases.
C5_GetUserInfoOutcome ==
    [][ Calls("get_user_info") =>
        LET a == args' IN
        /\ records' = records
        /\ IF a.username \notin DOMAIN records
           THEN exc' = "ValueError" /\ msg' = "User not found"
           ELSE IF a.current_user # a.username /\ ~a.is_admin
           THEN exc' = "PermissionError" /\ msg' = "Unauthorized access"
           ELSE exc' = "None" /\ ret' = records[a.username] ]_vars

\* a requester who is not admin reads their own record
C5_Witness ==
    /\ Called("get_user_info")
    /\ ~args.is_admin
    /\ args.current_user = args.username
    /\ exc = "None"
    /\ ret = records[args.username]
    /\ Cardinality(DOMAIN records) = 2

----------------------------------------------------------------------------
\* C6: list_all_users fails with "Unauthorized access" for a requester who
\* is not admin, whatever the directory holds; for an admin it returns the
\* whole directory as it is; the directory is unchanged either way.
C6_ListAllUsersOutcome ==
    [][ Calls("list_all_users") =>
        /\ records' = records
        /\ IF args'.is_admin
           THEN exc' = "None" /\ ret' = records
           ELSE /\ exc' = "PermissionError" /\ msg' = "Unauthorized access"
                /\ ret' = NoValue ]_vars

\* a requester who is not admin, and whose own record is in the directory,
\* is refused
C6_Witness ==
    /\ Called("list_all_users")
    /\ ~args.is_admin
    /\ args.current_user \in DOMAIN records
    /\ exc = "PermissionError"

----------------------------------------------------------------------------
\* C7: round trip: get_user_info called right after a successful add_user,
\* for the same username and by that user or by an admin, returns a record
\* whose email, age, mobile, gender, blood_group and role are the values
\* given to add_user, character for character.
C7_AddThenGetRoundTrip ==
    [][ (Calls("add_user") /\ exc' = "None") =>
        \A current_user \in Usernames, is_admin \in BOOLEAN :
            (current_user = args'.username \/ is_admin) =>
                LET got == get_user_info(records', args'.username,
                                         current_user, is_admin)
                IN  /\ got.exc = "None"
                    /\ got.ret.email = args'.email
                    /\ got.ret.age = args'.age
                    /\ got.ret.mobile = args'.mobile
                    /\ got.ret.gender = args'.gender
                    /\ got.ret.blood_group = args'.blood_group
                    /\ got.ret.role = args'.role ]_vars

\* a user was added with a gender and a blood group that case folding
\* would change
C7_Witness ==
    /\ Called("add_user")
    /\ exc = "None"
    /\ lower(args.gender) # args.gender
    /\ upper(args.blood_group) # args.blood_group
    /\ records[args.username].gender = args.gender

----------------------------------------------------------------------------
\* C8: a successful update_user changes only fields of the user's record
\* that updates names, and these are among email, age, mobile, gender and
\* blood_group; each is set to the value given; every other field, role
\* included, keeps its value; the other users' records and the set of
\* usernames are unchanged; the updated record is returned.
ChangedFields(old, new) ==
    {k \in DOMAIN old \cup DOMAIN new :
        k \notin DOMAIN old \/ k \notin DOMAIN new \/ old[k] # new[k]}

C8_UpdateChangesOnlyGivenFields ==
    [][ (Calls("update_user") /\ exc' = "None") =>
        LET u == args'.username
            updates == args'.updates
        IN  /\ DOMAIN records' = DOMAIN records
            /\ \A v \in DOMAIN records \ {u} : records'[v] = records[v]
            /\ ChangedFields(records[u], records'[u])
                   \subseteq (DOMAIN updates \cap UpdatableFields)
            /\ \A k \in DOMAIN updates \cap UpdatableFields :
                   records'[u][k] = updates[k]
            /\ records'[u].role = records[u].role
            /\ ret' = records'[u] ]_vars

----------------------------------------------------------------------------
\* C9: no step removes a username: a successful add_user adds exactly its
\* username, which was absent, and every other step leaves the set of
\* usernames as it was.
C9_RecordsNeverRemoved ==
    [][ /\ DOMAIN records \subseteq DOMAIN records'
        /\ IF Calls("add_user") /\ exc' = "None"
           THEN /\ args'.username \notin DOMAIN records
                /\ DOMAIN records' = DOMAIN records \cup {args'.username}
           ELSE DOMAIN records' = DOMAIN records ]_vars

\* a second user was added to a directory that held one
C9_Witness ==
    /\ Called("add_user")
    /\ exc = "None"
    /\ Cardinality(DOMAIN records) = 2

----------------------------------------------------------------------------
\* C10: a call made without admin rights adds no username and leaves every
\* record but the requester's own as it was; when it changes the directory
\* at all, it is a successful update_user of the requester's own record.
C10_NonAdminTouchesOnlyOwnRecord ==
    [][ (pc' = "returned" /\ ~args'.is_admin) =>
        /\ DOMAIN records' = DOMAIN records
        /\ \A u \in DOMAIN records \ {args'.current_user} :
               records'[u] = records[u]
        /\ records' # records =>
               /\ op' = "update_user"
               /\ exc' = "None"
               /\ args'.username = args'.current_user ]_vars

\* a requester who is not admin changed their own record, next to another
\* user's
C10_Witness ==
    /\ Called("update_user")
    /\ ~args.is_admin
    /\ exc = "None"
    /\ args.current_user = args.username
    /\ "mobile" \in DOMAIN args.updates
    /\ Cardinality(DOMAIN records) = 2

====
